---- MODULE Spec2Model ----
(***************************************************************************)
(* Model of the exam scheduling and seating allocation engine:             *)
(*   src/Exam Scheduling Algorithm/scheduler.py          (ExamScheduler)   *)
(*   src/Exam Scheduling Algorithm/seating_allocation.py                   *)
(*                                           (SeatingAllocationSystem)     *)
(* Calendar dates are day ordinals: day 0 is Friday 19.12.2025, so day 2   *)
(* is Sunday 21.12.2025.  Subject codes are numbers ordered like the code  *)
(* strings they stand for; departments are compared through DeptRank, the  *)
(* alphabetical order of their names.                                      *)
(***************************************************************************)
EXTENDS Integers, Sequences, FiniteSets, TLC

\* ------------------------------------------------------------------ bounds
MaxDay == 2
MaxSemSubjects == 2
MaxIntSubjects == 3
MaxGapDay == 3
MaxHalls == 2
MaxCapacity == 2
MaxDeptStudents == 2
MaxDateDay == 28
MaxRoundDay == 4
MaxRoundSubjects == 3
MaxPoolSubjects == 2
MaxHallNo == 3
MaxSeatRows == 3
MaxTeachers == 2
MaxMainDay == 1
MaxMainSubjects == 1

\* ------------------------------------------------------- program constants
SundayWeekday == 6
NominalStudentCount == 20

Departments == {"CSE", "ECE"}
SeatDepartments == {"CSE", "ECE", "MECH"}
DeptRank == [d \in SeatDepartments |-> IF d = "CSE" THEN 1 ELSE IF d = "ECE" THEN 2 ELSE 3]
Parities == {"ODD", "EVEN"}
SubjectTypes == {"HEAVY", "NONMAJOR"}
ExamTypeValues == {"BOTH", "INTERNAL"}
Sessions == {"FN", "AN", "SINGLE"}
ArrearCounts == {0, 1}
NoExam == [none |-> TRUE]

VARIABLES
    pc,                 \* position of the running entry point
    available_dates,    \* scheduler: generate_available_dates result
    db_subjects,        \* subjects table, in rowid order
    db_arrears,         \* per subject_id: distinct students with is_arrear = 1
    semester_type,      \* requested parity
    odd_subjects,       \* schedule_semester_exams: ODD pool
    even_subjects,      \* schedule_semester_exams: EVEN pool
    subjects,           \* schedule_internal_exams: pool
    schedule,
    violations,
    result,             \* "none" | "returned" | "raised"
    error,              \* which ValueError, and the numbers its message names
    last_exam,          \* validate_gap_constraint arguments and result
    new_date,
    new_session,
    gap_result,
    exam_type,          \* seating: 'SEM' or 'Internal'
    halls_df,           \* seating: hall catalog, in catalog order
    dept_groups,        \* seating: department -> number of students
    optimal_halls,      \* seating: optimize_hall_selection result
    dept_pointers,
    allocations,
    current_hall_position,
    current_seat_in_hall,
    total_allocated,
    current_hall_depts,
    start_date,         \* generate_available_dates arguments, DD.MM.YYYY
    end_date,
    holidays,
    requested_exam_type, \* get_subjects_for_year argument
    db_student_subjects, \* per subject_id: its student_subjects rows, counted
    hall_wise_allocations, \* seating: the dict's keys, in insertion order
    teachers_df,        \* seating: the 'Name' column of the teacher roster
    teacher_assignments, \* seating: hall number -> teacher name
    seating_allocations, \* the seating_allocations table, in rowid order
    self_exam_date,     \* the saving object's exam_date and session
    self_session,
    records_saved,      \* save_allocation_to_db return value
    main_exam_type,     \* main: the exam type entered, 'SEMESTER' or 'INTERNAL'
    confirm,            \* main: the operator's answers, as read
    override_choice,
    modify_choice,
    final_confirm,
    exam_cycles,        \* the exam_cycles table, in rowid order
    schedules,          \* the schedules table, in rowid order
    schedule_violations \* the schedule_violations table, in rowid order

vars == <<pc, available_dates, db_subjects, db_arrears, semester_type,
          odd_subjects, even_subjects, subjects, schedule, violations, result,
          error, last_exam, new_date, new_session, gap_result, exam_type,
          halls_df, dept_groups, optimal_halls, dept_pointers, allocations,
          current_hall_position, current_seat_in_hall, total_allocated,
          current_hall_depts, start_date, end_date, holidays,
          requested_exam_type, db_student_subjects, hall_wise_allocations,
          teachers_df, teacher_assignments, seating_allocations, self_exam_date,
          self_session, records_saved, main_exam_type, confirm,
          override_choice, modify_choice, final_confirm, exam_cycles, schedules,
          schedule_violations>>

schedVars == <<available_dates, db_subjects, db_arrears, semester_type,
               odd_subjects, even_subjects, subjects, schedule, violations,
               result, error>>
gapVars == <<last_exam, new_date, new_session, gap_result>>
seatVars == <<exam_type, halls_df, dept_groups, optimal_halls, dept_pointers,
              allocations, current_hall_position, current_seat_in_hall,
              total_allocated, current_hall_depts>>

dateVars == <<start_date, end_date, holidays>>
poolVars == <<requested_exam_type, db_student_subjects>>
teachVars == <<hall_wise_allocations, teachers_df, teacher_assignments>>
saveVars == <<seating_allocations, self_exam_date, self_session, records_saved>>
mainVars == <<main_exam_type, confirm, override_choice, modify_choice,
              final_confirm, exam_cycles, schedules, schedule_violations>>

NoError == [kind |-> "", min_days |-> 0, available |-> 0]

SchedIdle ==
    /\ available_dates = <<>>
    /\ db_subjects = <<>>
    /\ db_arrears = <<>>
    /\ semester_type = "ODD"
    /\ odd_subjects = <<>>
    /\ even_subjects = <<>>
    /\ subjects = <<>>
    /\ schedule = <<>>
    /\ violations = <<>>
    /\ result = "none"
    /\ error = NoError

GapIdle ==
    /\ last_exam = NoExam
    /\ new_date = 0
    /\ new_session = "FN"
    /\ gap_result = [valid |-> TRUE, message |-> ""]

SeatIdle ==
    /\ exam_type = "SEM"
    /\ halls_df = <<>>
    /\ dept_groups = [d \in SeatDepartments |-> 0]
    /\ optimal_halls = <<>>
    /\ dept_pointers = [d \in SeatDepartments |-> 0]
    /\ allocations = <<>>
    /\ current_hall_position = 0
    /\ current_seat_in_hall = 1
    /\ total_allocated = 0
    /\ current_hall_depts = {}

\* a DD.MM.YYYY string, as its three fields
DateString(d, m, y) == [day |-> d, month |-> m, year |-> y]

DateIdle ==
    /\ start_date = DateString(19, 12, 2025)
    /\ end_date = DateString(19, 12, 2025)
    /\ holidays = {}

PoolIdle ==
    /\ requested_exam_type = "SEMESTER"
    /\ db_student_subjects = <<>>

TeachIdle ==
    /\ hall_wise_allocations = <<>>
    /\ teachers_df = <<>>
    /\ teacher_assignments = <<>>

\* an exam_date that is not set (None or '', both fail 'if not self.exam_date')
NoDate == ""

SaveIdle ==
    /\ seating_allocations = <<>>
    /\ self_exam_date = NoDate
    /\ self_session = "FN"
    /\ records_saved = 0

\* a prompt that has not been shown
NotAsked == "-"

MainIdle ==
    /\ main_exam_type = "SEMESTER"
    /\ confirm = NotAsked
    /\ override_choice = NotAsked
    /\ modify_choice = NotAsked
    /\ final_confirm = NotAsked
    /\ exam_cycles = <<>>
    /\ schedules = <<>>
    /\ schedule_violations = <<>>

\* ------------------------------------------------------- generic helpers
Max2(a, b) == IF a >= b THEN a ELSE b

SetMax(S) == IF S = {} THEN 0 ELSE CHOOSE m \in S : \A x \in S : x <= m

\* ------------------------------------------- generate_available_dates
\* datetime.weekday(): Monday is 0; day 0 is a Friday (4)
weekday(d) == (d + 4) % 7

\* variant: the loop stops before the end date (while current < end)
RECURSIVE DatesFrom_ExclusiveEnd(_, _, _)
DatesFrom_ExclusiveEnd(current, end, holiday_dates) ==
    IF current >= end THEN <<>>
    ELSE (IF weekday(current) # SundayWeekday /\ current \notin holiday_dates
          THEN <<current>> ELSE <<>>)
         \o DatesFrom_ExclusiveEnd(current + 1, end, holiday_dates)

RECURSIVE DatesFrom(_, _, _)
DatesFrom(current, end, holiday_dates) ==
    IF current > end THEN <<>>
    ELSE (IF weekday(current) # SundayWeekday /\ current \notin holiday_dates
          THEN <<current>> ELSE <<>>)
         \o DatesFrom(current + 1, end, holiday_dates)

generate_available_dates(start, end, holiday_dates) == DatesFrom(start, end, holiday_dates)

\* datetime.strptime(s, '%d.%m.%Y') for December 2025 and January 2026, as
\* the day ordinal (19.12.2025 is day 0, 01.01.2026 is day 13)
strptime(s) == IF s.month = 12 THEN s.day - 19 ELSE s.day + 12

\* datetime.strftime('%d.%m.%Y') of a day ordinal
strftime(d) ==
    IF d <= 12 THEN DateString(d + 19, 12, 2025) ELSE DateString(d - 12, 1, 2026)

\* the whole function on DD.MM.YYYY strings: parse, loop, format
GenerateDateStrings(start, end, holiday_list) ==
    LET dates == generate_available_dates(strptime(start), strptime(end),
                                          {strptime(h) : h \in holiday_list})
    IN  [i \in 1..Len(dates) |-> strftime(dates[i])]

\* ------------------------------------------- validate_gap_constraint
\* variant: a HEAVY exam only blocks the same day (days_diff < 1)
validate_gap_constraint_NextDay(last, nd, ns) ==
    IF last = NoExam THEN [valid |-> TRUE, message |-> ""]
    ELSE LET days_diff == nd - last.date
         IN  IF last.subject_type = "HEAVY" /\ days_diff < 1
             THEN [valid |-> FALSE, message |-> "Heavy subject needs 1 full day gap"]
             ELSE IF last.subject_type = "NONMAJOR" /\ days_diff = 0 /\ ns = last.session
             THEN [valid |-> FALSE, message |-> "Same session on same day for non-major"]
             ELSE IF last.session = "AN" /\ days_diff = 1 /\ ns = "FN"
             THEN [valid |-> FALSE, message |-> "Cannot schedule FN next day after AN session"]
             ELSE [valid |-> TRUE, message |-> ""]

validate_gap_constraint(last, nd, ns) ==
    IF last = NoExam THEN [valid |-> TRUE, message |-> ""]
    ELSE LET days_diff == nd - last.date
         IN  IF last.subject_type = "HEAVY" /\ days_diff < 2
             THEN [valid |-> FALSE, message |-> "Heavy subject needs 1 full day gap"]
             ELSE IF last.subject_type = "NONMAJOR" /\ days_diff = 0 /\ ns = last.session
             THEN [valid |-> FALSE, message |-> "Same session on same day for non-major"]
             ELSE IF last.session = "AN" /\ days_diff = 1 /\ ns = "FN"
             THEN [valid |-> FALSE, message |-> "Cannot schedule FN next day after AN session"]
             ELSE [valid |-> TRUE, message |-> ""]

\* ------------------------------------------------ get_subjects_for_year
SubjectRows ==
    [department : Departments, semester_type : Parities,
     subject_type : SubjectTypes, exam_type : ExamTypeValues]

\* a subjects table of n rows: subject_id is the rowid, subject_code follows it
SubjectTables(n) ==
    UNION {[1..k -> SubjectRows] : k \in 0..n}

ArrearTables(n) == [1..n -> ArrearCounts]

OppositeSemester(sem) == IF sem = "ODD" THEN "EVEN" ELSE "ODD"

SubjectDict(tbl, id, count, track) ==
    [subject_id |-> id, subject_code |-> id,
     department |-> tbl[id].department,
     semester_type |-> tbl[id].semester_type,
     subject_type |-> tbl[id].subject_type,
     exam_type |-> tbl[id].exam_type,
     student_count |-> count, subject_track |-> track]

RECURSIVE QueryRegular(_, _, _, _)
QueryRegular(tbl, id, etype, sem) ==
    IF id > Len(tbl) THEN <<>>
    ELSE (IF tbl[id].semester_type = sem
             /\ (tbl[id].exam_type = etype \/ tbl[id].exam_type = "BOTH")
          THEN <<SubjectDict(tbl, id, NominalStudentCount, "REGULAR")>>
          ELSE <<>>)
         \o QueryRegular(tbl, id + 1, etype, sem)

RECURSIVE QueryArrear(_, _, _, _, _)
QueryArrear(tbl, arrears, id, etype, sem) ==
    IF id > Len(tbl) THEN <<>>
    ELSE (IF tbl[id].semester_type = sem
             /\ (tbl[id].exam_type = etype \/ tbl[id].exam_type = "BOTH")
             /\ arrears[id] > 0
          THEN <<SubjectDict(tbl, id, arrears[id], "ARREAR")>>
          ELSE <<>>)
         \o QueryArrear(tbl, arrears, id + 1, etype, sem)

SortKey(x) ==
    <<IF x.subject_track = "REGULAR" THEN 0 ELSE 1,
      IF x.subject_type = "THEORY" THEN 0 ELSE 1,
      DeptRank[x.department],
      x.subject_code>>

KeyLess(a, b) ==
    \E i \in 1..4 : a[i] < b[i] /\ \A j \in 1..(i - 1) : a[j] = b[j]

\* stable insertion of x into an already sorted list
RECURSIVE InsertSorted(_, _)
InsertSorted(x, s) ==
    IF s = <<>> THEN <<x>>
    ELSE IF KeyLess(SortKey(x), SortKey(Head(s))) THEN <<x>> \o s
    ELSE <<Head(s)>> \o InsertSorted(x, Tail(s))

RECURSIVE SortSubjects(_)
SortSubjects(rows) ==
    IF rows = <<>> THEN <<>>
    ELSE InsertSorted(rows[Len(rows)], SortSubjects(SubSeq(rows, 1, Len(rows) - 1)))

get_subjects_for_year(tbl, arrears, etype, sem) ==
    IF etype = "SEMESTER"
    THEN SortSubjects(QueryRegular(tbl, 1, etype, sem)
                      \o QueryArrear(tbl, arrears, 1, etype, OppositeSemester(sem)))
    ELSE SortSubjects(QueryRegular(tbl, 1, etype, sem))

\* --------------------------------------------------- grouping by department
DeptsOf(pool) == {pool[i].department : i \in 1..Len(pool)}

GroupByDept(pool) ==
    [d \in DeptsOf(pool) |-> SelectSeq(pool, LAMBDA x : x.department = d)]

\* variant: the smallest per-department count takes the place of the largest
MaxPerDept_Smallest(by_dept) ==
    IF DOMAIN by_dept = {} THEN 0
    ELSE LET counts == {Len(by_dept[d]) : d \in DOMAIN by_dept}
         IN  CHOOSE n \in counts : \A m \in counts : n <= m

MaxPerDept(by_dept) == SetMax({Len(by_dept[d]) : d \in DOMAIN by_dept})

\* sorted(by_dept.items()): the departments in alphabetical order
RECURSIVE SortedDepts(_)
SortedDepts(S) ==
    IF S = {} THEN <<>>
    ELSE LET d == CHOOSE x \in S : \A y \in S : DeptRank[x] <= DeptRank[y]
         IN  <<d>> \o SortedDepts(S \ {d})

\* ------------------------------------------------ schedule_semester_exams
SemEntry(subject, dept, exam_date, sem) ==
    [subject_id |-> subject.subject_id, subject_code |-> subject.subject_code,
     department |-> dept, date |-> exam_date, session |-> "FN",
     subject_type |-> subject.subject_type,
     student_count |-> subject.student_count, semester_type |-> sem]

\* variant: every subject of the department up to round_num is placed again
RECURSIVE RoundEntries_UpToRound(_, _, _, _, _)
RoundEntries_UpToRound(depts, by_dept, round_num, exam_date, sem) ==
    IF depts = <<>> THEN <<>>
    ELSE [i \in 1..(IF round_num < Len(by_dept[Head(depts)])
                    THEN round_num + 1 ELSE 0) |->
             SemEntry(by_dept[Head(depts)][i], Head(depts), exam_date, sem)]
         \o RoundEntries_UpToRound(Tail(depts), by_dept, round_num, exam_date, sem)

\* one pass of "for dept, subjs in sorted(by_dept.items())" for round round_num
RECURSIVE RoundEntries(_, _, _, _, _)
RoundEntries(depts, by_dept, round_num, exam_date, sem) ==
    IF depts = <<>> THEN <<>>
    ELSE (IF round_num < Len(by_dept[Head(depts)])
          THEN <<SemEntry(by_dept[Head(depts)][round_num + 1], Head(depts), exam_date, sem)>>
          ELSE <<>>)
         \o RoundEntries(Tail(depts), by_dept, round_num, exam_date, sem)

\* variant: the secondary pass does not advance date_index
RECURSIVE AlternateLoop_SharedDate(_, _, _, _)
AlternateLoop_SharedDate(c, round_num, date_index, sched) ==
    IF ~(round_num < Max2(c.max_primary, c.max_secondary) /\ date_index < Len(c.dates))
    THEN [schedule |-> sched, date_index |-> date_index]
    ELSE LET doPrimary == round_num < c.max_primary /\ date_index < Len(c.dates)
             sched1 == IF doPrimary
                       THEN sched \o RoundEntries(SortedDepts(DOMAIN c.primary), c.primary,
                                                  round_num, c.dates[date_index + 1], c.primary_sem)
                       ELSE sched
             index1 == IF doPrimary THEN date_index + 1 ELSE date_index
             doSecondary == round_num < c.max_secondary /\ index1 < Len(c.dates)
             sched2 == IF doSecondary
                       THEN sched1 \o RoundEntries(SortedDepts(DOMAIN c.secondary), c.secondary,
                                                   round_num, c.dates[index1 + 1], c.secondary_sem)
                       ELSE sched1
         IN  AlternateLoop_SharedDate(c, round_num + 1, index1, sched2)

\* the while loop of the alternating schedule; c holds the loop's constants
RECURSIVE AlternateLoop(_, _, _, _)
AlternateLoop(c, round_num, date_index, sched) ==
    IF ~(round_num < Max2(c.max_primary, c.max_secondary) /\ date_index < Len(c.dates))
    THEN [schedule |-> sched, date_index |-> date_index]
    ELSE LET doPrimary == round_num < c.max_primary /\ date_index < Len(c.dates)
             sched1 == IF doPrimary
                       THEN sched \o RoundEntries(SortedDepts(DOMAIN c.primary), c.primary,
                                                  round_num, c.dates[date_index + 1], c.primary_sem)
                       ELSE sched
             index1 == IF doPrimary THEN date_index + 1 ELSE date_index
             doSecondary == round_num < c.max_secondary /\ index1 < Len(c.dates)
             sched2 == IF doSecondary
                       THEN sched1 \o RoundEntries(SortedDepts(DOMAIN c.secondary), c.secondary,
                                                   round_num, c.dates[index1 + 1], c.secondary_sem)
                       ELSE sched1
             index2 == IF doSecondary THEN index1 + 1 ELSE index1
         IN  AlternateLoop(c, round_num + 1, index2, sched2)

\* variant: when the dates run out the loop starts over on the same dates
schedule_semester_exams_RepeatDates(dates, odd, even, sem) ==
    LET odd_by_dept == GroupByDept(odd)
        even_by_dept == GroupByDept(even)
        max_odd == MaxPerDept(odd_by_dept)
        max_even == MaxPerDept(even_by_dept)
        c == IF sem = "ODD"
             THEN [dates |-> dates \o dates, primary |-> odd_by_dept,
                   secondary |-> even_by_dept,
                   max_primary |-> max_odd, max_secondary |-> max_even,
                   primary_sem |-> "ODD", secondary_sem |-> "EVEN"]
             ELSE [dates |-> dates \o dates, primary |-> even_by_dept,
                   secondary |-> odd_by_dept,
                   max_primary |-> max_even, max_secondary |-> max_odd,
                   primary_sem |-> "EVEN", secondary_sem |-> "ODD"]
    IN  AlternateLoop(c, 0, 0, <<>>).schedule

schedule_semester_exams(dates, odd, even, sem) ==
    LET odd_by_dept == GroupByDept(odd)
        even_by_dept == GroupByDept(even)
        max_odd == MaxPerDept(odd_by_dept)
        max_even == MaxPerDept(even_by_dept)
        c == IF sem = "ODD"
             THEN [dates |-> dates, primary |-> odd_by_dept, secondary |-> even_by_dept,
                   max_primary |-> max_odd, max_secondary |-> max_even,
                   primary_sem |-> "ODD", secondary_sem |-> "EVEN"]
             ELSE [dates |-> dates, primary |-> even_by_dept, secondary |-> odd_by_dept,
                   max_primary |-> max_even, max_secondary |-> max_odd,
                   primary_sem |-> "EVEN", secondary_sem |-> "ODD"]
    IN  AlternateLoop(c, 0, 0, <<>>).schedule

InitSem ==
    /\ pc = "sem_start"
    /\ DateIdle
    /\ SaveIdle
    /\ TeachIdle
    /\ PoolIdle
    /\ SchedIdle
    /\ GapIdle
    /\ SeatIdle
    /\ MainIdle

\* scheduler.py 226-230: the available dates, and the error when there are none
SemGenerateDates ==
    /\ pc = "sem_start"
    /\ \E start \in 0..MaxDay, end \in 0..MaxDay, holiday_dates \in SUBSET (0..MaxDay) :
         available_dates' = generate_available_dates(start, end, holiday_dates)
    /\ IF available_dates' = <<>>
       THEN /\ result' = "raised"
            /\ error' = [NoError EXCEPT !.kind = "NoAvailableDates"]
            /\ pc' = "done"
       ELSE /\ UNCHANGED <<result, error>>
            /\ pc' = "sem_dates"
    /\ UNCHANGED <<db_subjects, db_arrears, semester_type, odd_subjects,
                   even_subjects, subjects, schedule, violations>>
    /\ UNCHANGED gapVars
    /\ UNCHANGED dateVars
    /\ UNCHANGED poolVars
    /\ UNCHANGED teachVars
    /\ UNCHANGED saveVars
    /\ UNCHANGED seatVars
    /\ UNCHANGED mainVars

\* scheduler.py 232-337: both pools are read, then the alternating loop runs
SemSchedule ==
    /\ pc = "sem_dates"
    /\ \E tbl \in SubjectTables(MaxSemSubjects), sem \in Parities :
         \E arrears \in ArrearTables(Len(tbl)) :
            \E odd \in {get_subjects_for_year(tbl, arrears, "SEMESTER", "ODD")},
               even \in {get_subjects_for_year(tbl, arrears, "SEMESTER", "EVEN")} :
                /\ db_subjects' = tbl
                /\ db_arrears' = arrears
                /\ semester_type' = sem
                /\ odd_subjects' = odd
                /\ even_subjects' = even
                /\ schedule' = schedule_semester_exams(available_dates, odd, even, sem)
    /\ violations' = <<>>
    /\ result' = "returned"
    /\ pc' = "done"
    /\ UNCHANGED <<available_dates, subjects, error>>
    /\ UNCHANGED gapVars
    /\ UNCHANGED dateVars
    /\ UNCHANGED poolVars
    /\ UNCHANGED teachVars
    /\ UNCHANGED saveVars
    /\ UNCHANGED seatVars
    /\ UNCHANGED mainVars

NextSem == SemGenerateDates \/ SemSchedule

SpecSem == InitSem /\ [][NextSem]_vars

\* --------------- schedule_semester_exams over longer periods and deeper pools
\* (subjects that differ in department and parity only)
RoundRows ==
    [department : Departments, semester_type : Parities,
     subject_type : {"HEAVY"}, exam_type : {"BOTH"}]

RoundTables(n) == UNION {[1..k -> RoundRows] : k \in 0..n}

\* scheduler.py 226-230
RoundGenerateDates ==
    /\ pc = "sem_start"
    /\ \E start \in 0..MaxRoundDay, end \in 0..MaxRoundDay,
          holiday_dates \in SUBSET (0..MaxRoundDay) :
         available_dates' = generate_available_dates(start, end, holiday_dates)
    /\ IF available_dates' = <<>>
       THEN /\ result' = "raised"
            /\ error' = [NoError EXCEPT !.kind = "NoAvailableDates"]
            /\ pc' = "done"
       ELSE /\ UNCHANGED <<result, error>>
            /\ pc' = "sem_dates"
    /\ UNCHANGED <<db_subjects, db_arrears, semester_type, odd_subjects,
                   even_subjects, subjects, schedule, violations>>
    /\ UNCHANGED gapVars
    /\ UNCHANGED seatVars
    /\ UNCHANGED dateVars
    /\ UNCHANGED poolVars
    /\ UNCHANGED teachVars
    /\ UNCHANGED saveVars
    /\ UNCHANGED mainVars

\* scheduler.py 232-337
RoundSchedule ==
    /\ pc = "sem_dates"
    /\ \E tbl \in RoundTables(MaxRoundSubjects), sem \in Parities :
         \E arrears \in ArrearTables(Len(tbl)) :
            \E odd \in {get_subjects_for_year(tbl, arrears, "SEMESTER", "ODD")},
               even \in {get_subjects_for_year(tbl, arrears, "SEMESTER", "EVEN")} :
                /\ db_subjects' = tbl
                /\ db_arrears' = arrears
                /\ semester_type' = sem
                /\ odd_subjects' = odd
                /\ even_subjects' = even
                /\ schedule' = schedule_semester_exams(available_dates, odd, even, sem)
    /\ violations' = <<>>
    /\ result' = "returned"
    /\ pc' = "done"
    /\ UNCHANGED <<available_dates, subjects, error>>
    /\ UNCHANGED gapVars
    /\ UNCHANGED seatVars
    /\ UNCHANGED dateVars
    /\ UNCHANGED poolVars
    /\ UNCHANGED teachVars
    /\ UNCHANGED saveVars
    /\ UNCHANGED mainVars

NextRound == RoundGenerateDates \/ RoundSchedule

SpecRound == InitSem /\ [][NextRound]_vars

\* ------------------------------------------------ schedule_internal_exams
IntEntry(subject, slot) ==
    [subject_id |-> subject.subject_id, subject_code |-> subject.subject_code,
     department |-> subject.department, date |-> slot.date, session |-> slot.session,
     subject_type |-> subject.subject_type, student_count |-> subject.student_count]

NoSlotViolation(subject) ==
    [subject_id |-> subject.subject_id, subject_code |-> subject.subject_code,
     violation_type |-> "NO_SLOT_AVAILABLE",
     description |-> "Could not find available slot", severity |-> "HIGH"]

\* variant: only the first session of each date becomes a slot
RECURSIVE BuildSlots_FirstSession(_, _)
BuildSlots_FirstSession(dates, sessions) ==
    IF dates = <<>> THEN <<>>
    ELSE <<[date |-> Head(dates), session |-> sessions[1]]>>
         \o BuildSlots_FirstSession(Tail(dates), sessions)

\* for date in available_dates: for session in sessions: slots.append(...)
RECURSIVE BuildSlots(_, _)
BuildSlots(dates, sessions) ==
    IF dates = <<>> THEN <<>>
    ELSE [i \in 1..Len(sessions) |-> [date |-> Head(dates), session |-> sessions[i]]]
         \o BuildSlots(Tail(dates), sessions)

\* variant: a slot used by any department is taken for all departments
FirstFreeSlot_AnyDept(slots, usage, dept) ==
    LET free == {i \in 1..Len(slots) :
                    \A d \in Departments : <<d, slots[i].date, slots[i].session>> \notin usage}
    IN  IF free = {} THEN 0 ELSE CHOOSE i \in free : \A j \in free : i <= j

\* index of the first slot whose dept_date_session key is unused, 0 when none
FirstFreeSlot(slots, usage, dept) ==
    LET free == {i \in 1..Len(slots) : <<dept, slots[i].date, slots[i].session>> \notin usage}
    IN  IF free = {} THEN 0 ELSE CHOOSE i \in free : \A j \in free : i <= j

\* the "for subject in subjects" loop: acc carries schedule, violations, usage
RECURSIVE FillSlots(_, _, _)
FillSlots(pool, slots, acc) ==
    IF pool = <<>> THEN acc
    ELSE LET subject == Head(pool)
             i == FirstFreeSlot(slots, acc.usage, subject.department)
         IN  IF i # 0
             THEN FillSlots(Tail(pool), slots,
                      [schedule |-> Append(acc.schedule, IntEntry(subject, slots[i])),
                       violations |-> acc.violations,
                       usage |-> acc.usage \cup
                           {<<subject.department, slots[i].date, slots[i].session>>}])
             ELSE FillSlots(Tail(pool), slots,
                      [schedule |-> acc.schedule,
                       violations |-> Append(acc.violations, NoSlotViolation(subject)),
                       usage |-> acc.usage])

\* variant: the minimum is computed from max_subjects_per_dept - 1
InsufficientDates_Low(n_dates, max_subjects_per_dept) ==
    2 * n_dates < max_subjects_per_dept - 1

\* min_days_needed = (max_subjects_per_dept + 1) / 2 is a float; the test
\* len(available_dates) < min_days_needed is taken on the doubled values
InsufficientDates(n_dates, max_subjects_per_dept) ==
    2 * n_dates < max_subjects_per_dept + 1

\* int(min_days_needed), the number the error message names
MinDaysNamed(max_subjects_per_dept) == (max_subjects_per_dept + 1) \div 2

\* variant: both sessions also when the dates just cover the deepest department
SessionsFor_AtMost(n_dates, max_subjects_per_dept) ==
    IF n_dates <= max_subjects_per_dept THEN <<"FN", "AN">> ELSE <<"FN">>

SessionsFor(n_dates, max_subjects_per_dept) ==
    IF n_dates < max_subjects_per_dept THEN <<"FN", "AN">> ELSE <<"FN">>

InitInt ==
    /\ pc = "int_start"
    /\ DateIdle
    /\ SaveIdle
    /\ TeachIdle
    /\ PoolIdle
    /\ SchedIdle
    /\ GapIdle
    /\ SeatIdle
    /\ MainIdle

\* scheduler.py 354-358
IntGenerateDates ==
    /\ pc = "int_start"
    /\ \E start \in 0..MaxDay, end \in 0..MaxDay, holiday_dates \in SUBSET (0..MaxDay) :
         available_dates' = generate_available_dates(start, end, holiday_dates)
    /\ IF available_dates' = <<>>
       THEN /\ result' = "raised"
            /\ error' = [NoError EXCEPT !.kind = "NoAvailableDates"]
            /\ pc' = "done"
       ELSE /\ UNCHANGED <<result, error>>
            /\ pc' = "int_dates"
    /\ UNCHANGED <<db_subjects, db_arrears, semester_type, odd_subjects,
                   even_subjects, subjects, schedule, violations>>
    /\ UNCHANGED gapVars
    /\ UNCHANGED dateVars
    /\ UNCHANGED poolVars
    /\ UNCHANGED teachVars
    /\ UNCHANGED saveVars
    /\ UNCHANGED seatVars
    /\ UNCHANGED mainVars

\* scheduler.py 360-456
IntSchedule ==
    /\ pc = "int_dates"
    /\ \E tbl \in SubjectTables(MaxIntSubjects), sem \in Parities :
         \E pool \in {get_subjects_for_year(tbl, <<>>, "INTERNAL", sem)} :
            LET max_subjects_per_dept == MaxPerDept(GroupByDept(pool))
                n_dates == Len(available_dates)
                slots == BuildSlots(available_dates,
                                    SessionsFor(n_dates, max_subjects_per_dept))
                filled == FillSlots(pool, slots,
                                    [schedule |-> <<>>, violations |-> <<>>, usage |-> {}])
            IN  /\ db_subjects' = tbl
                /\ semester_type' = sem
                /\ subjects' = pool
                /\ IF pool = <<>>
                   THEN /\ result' = "raised"
                        /\ error' = [NoError EXCEPT !.kind = "NoSubjects"]
                        /\ UNCHANGED <<schedule, violations>>
                   ELSE IF InsufficientDates(n_dates, max_subjects_per_dept)
                   THEN /\ result' = "raised"
                        /\ error' = [kind |-> "InsufficientDates",
                                     min_days |-> MinDaysNamed(max_subjects_per_dept),
                                     available |-> n_dates]
                        /\ UNCHANGED <<schedule, violations>>
                   ELSE \E done \in {filled} :
                        /\ result' = "returned"
                        /\ UNCHANGED error
                        /\ schedule' = done.schedule
                        /\ violations' = done.violations
    /\ pc' = "done"
    /\ UNCHANGED <<available_dates, db_arrears, odd_subjects, even_subjects>>
    /\ UNCHANGED gapVars
    /\ UNCHANGED dateVars
    /\ UNCHANGED poolVars
    /\ UNCHANGED teachVars
    /\ UNCHANGED saveVars
    /\ UNCHANGED seatVars
    /\ UNCHANGED mainVars

NextInt == IntGenerateDates \/ IntSchedule

SpecInt == InitInt /\ [][NextInt]_vars

\* ------------------------------------------------ optimize_hall_selection
SeatsPerBench(etype) == IF etype = "Internal" THEN 2 ELSE 1

effective_capacity(hall, etype) == hall.capacity * SeatsPerBench(etype)

\* ascending insertion of one capacity into a sorted list
RECURSIVE InsertCapacity(_, _)
InsertCapacity(c, s) ==
    IF s = <<>> THEN <<c>>
    ELSE IF c < Head(s) THEN <<c>> \o s
    ELSE <<Head(s)>> \o InsertCapacity(c, Tail(s))

\* halls_df.sort_values('effective_capacity'): the capacities in ascending order
RECURSIVE SortedCapacities(_, _)
SortedCapacities(halls, etype) ==
    IF halls = <<>> THEN <<>>
    ELSE InsertCapacity(effective_capacity(halls[Len(halls)], etype),
                        SortedCapacities(SubSeq(halls, 1, Len(halls) - 1), etype))

\* variant: the loop stops only once the capacity exceeds the roster size
RECURSIVE Accumulate_Strict(_, _, _, _)
Accumulate_Strict(caps, total_students, taken, accumulated_capacity) ==
    IF caps = <<>> \/ accumulated_capacity > total_students
    THEN [taken |-> taken, accumulated_capacity |-> accumulated_capacity]
    ELSE Accumulate_Strict(Tail(caps), total_students, taken + 1,
                           accumulated_capacity + Head(caps))

\* the greedy loop: how many rows of halls_sorted are taken, and their capacity
RECURSIVE Accumulate(_, _, _, _)
Accumulate(caps, total_students, taken, accumulated_capacity) ==
    IF caps = <<>> \/ accumulated_capacity >= total_students
    THEN [taken |-> taken, accumulated_capacity |-> accumulated_capacity]
    ELSE Accumulate(Tail(caps), total_students, taken + 1,
                    accumulated_capacity + Head(caps))

\* the result is a list of positions: 1..k stands for Python's [0, ..., k-1]
optimize_hall_selection(halls, etype, total_students) ==
    LET acc == Accumulate(SortedCapacities(halls, etype), total_students, 0, 0)
    IN  IF acc.accumulated_capacity < total_students
        THEN [i \in 1..Len(halls) |-> i]
        ELSE [i \in 1..acc.taken |-> i]

\* ------------------------------------------------ seat allocation loops
HallCatalogs(n) ==
    UNION {[1..k -> [capacity : 0..MaxCapacity]] : k \in 0..n}

Rosters == [SeatDepartments -> 0..MaxDeptStudents]

\* len(self.students_df)
RECURSIVE RosterSize(_, _)
RosterSize(groups, depts) ==
    IF depts = {} THEN 0
    ELSE LET d == CHOOSE x \in depts : TRUE
         IN  groups[d] + RosterSize(groups, depts \ {d})

TotalStudents(groups) == RosterSize(groups, DOMAIN groups)

\* variant: a department stays available one student past its last
AvailableDepts_Inclusive(groups, pointers) ==
    {d \in DOMAIN pointers : pointers[d] <= groups[d]}

AvailableDepts(groups, pointers) ==
    {d \in DOMAIN pointers : pointers[d] < groups[d]}

\* variant: the department is always drawn from all available departments
DiverseChoices_Any(available_depts, hall_depts) == available_depts

\* the departments random.choice draws the next student's department from
DiverseChoices(available_depts, hall_depts) ==
    IF Cardinality(hall_depts) < 2
    THEN LET unused_depts == available_depts \ hall_depts
         IN  IF unused_depts # {} THEN unused_depts ELSE available_depts
    ELSE available_depts

\* variant: the seat number is taken from the department's pointer
SeatRecord_DeptSeat(hall_no, seat_no, dept, index) ==
    [hall_no |-> hall_no, seat_no |-> index + 1, department |-> dept, student |-> index]

SeatRecord(hall_no, seat_no, dept, index) ==
    [hall_no |-> hall_no, seat_no |-> seat_no, department |-> dept, student |-> index]

LoopRuns ==
    /\ total_allocated < TotalStudents(dept_groups)
    /\ current_hall_position < Len(optimal_halls)
    /\ AvailableDepts(dept_groups, dept_pointers) # {}

InitSeat ==
    /\ pc = "seat_start"
    /\ DateIdle
    /\ SaveIdle
    /\ TeachIdle
    /\ PoolIdle
    /\ SchedIdle
    /\ GapIdle
    /\ exam_type \in {"SEM", "Internal"}
    /\ halls_df \in HallCatalogs(MaxHalls)
    /\ dept_groups \in Rosters
    /\ optimal_halls = <<>>
    /\ dept_pointers = [d \in {x \in SeatDepartments : dept_groups[x] > 0} |-> 0]
    /\ allocations = <<>>
    /\ current_hall_position = 0
    /\ current_seat_in_hall = 1
    /\ total_allocated = 0
    /\ current_hall_depts = {}
    /\ MainIdle

\* seating_allocation.py 236-237
SelectHalls ==
    /\ pc = "seat_start"
    /\ optimal_halls' = optimize_hall_selection(halls_df, exam_type,
                                                TotalStudents(dept_groups))
    /\ pc' = "seat_loop"
    /\ UNCHANGED <<exam_type, halls_df, dept_groups, dept_pointers, allocations,
                   current_hall_position, current_seat_in_hall, total_allocated,
                   current_hall_depts>>
    /\ UNCHANGED schedVars
    /\ UNCHANGED gapVars
    /\ UNCHANGED dateVars
    /\ UNCHANGED poolVars
    /\ UNCHANGED teachVars
    /\ UNCHANGED saveVars
    /\ UNCHANGED mainVars

\* seating_allocation.py 280-329: one iteration of the SEM while loop
AllocateSem ==
    /\ pc = "seat_loop"
    /\ exam_type = "SEM"
    /\ LoopRuns
    /\ LET current_hall_idx == optimal_halls[current_hall_position + 1]
           hall_capacity == halls_df[current_hall_idx].capacity
           available_depts == AvailableDepts(dept_groups, dept_pointers)
       IN  \E selected_dept \in DiverseChoices(available_depts, current_hall_depts) :
             /\ allocations' = Append(allocations,
                    SeatRecord(current_hall_idx, current_seat_in_hall, selected_dept,
                               dept_pointers[selected_dept]))
             /\ dept_pointers' = [dept_pointers EXCEPT ![selected_dept] = @ + 1]
             /\ total_allocated' = total_allocated + 1
             /\ IF current_seat_in_hall + 1 > hall_capacity
                THEN /\ current_hall_position' = current_hall_position + 1
                     /\ current_seat_in_hall' = 1
                     /\ current_hall_depts' = {}
                ELSE /\ current_seat_in_hall' = current_seat_in_hall + 1
                     /\ current_hall_depts' = current_hall_depts \cup {selected_dept}
                     /\ UNCHANGED current_hall_position
    /\ UNCHANGED <<pc, exam_type, halls_df, dept_groups, optimal_halls>>
    /\ UNCHANGED schedVars
    /\ UNCHANGED gapVars
    /\ UNCHANGED dateVars
    /\ UNCHANGED poolVars
    /\ UNCHANGED teachVars
    /\ UNCHANGED saveVars
    /\ UNCHANGED mainVars

\* variant: the bench-mate is drawn from every department with students left
OtherDepts_Any(available_depts, dept1) == available_depts

\* other_depts = [d for d in available_depts if d != dept1]
OtherDepts(available_depts, dept1) == available_depts \ {dept1}

\* seating_allocation.py 369-432: one iteration of the Internal while loop
AllocateInternal ==
    /\ pc = "seat_loop"
    /\ exam_type = "Internal"
    /\ LoopRuns
    /\ LET current_hall_idx == optimal_halls[current_hall_position + 1]
           hall_capacity == halls_df[current_hall_idx].capacity
           available_depts == AvailableDepts(dept_groups, dept_pointers)
       IN  \E dept1 \in DiverseChoices(available_depts, current_hall_depts) :
             LET first == SeatRecord(current_hall_idx, current_seat_in_hall, dept1,
                                     dept_pointers[dept1])
                 pointers1 == [dept_pointers EXCEPT ![dept1] = @ + 1]
                 other_depts == OtherDepts(AvailableDepts(dept_groups, pointers1), dept1)
             IN  /\ IF other_depts # {}
                    THEN \E dept2 \in other_depts :
                           /\ allocations' = allocations \o
                                  <<first,
                                    SeatRecord(current_hall_idx, current_seat_in_hall,
                                               dept2, pointers1[dept2])>>
                           /\ dept_pointers' = [pointers1 EXCEPT ![dept2] = @ + 1]
                           /\ total_allocated' = total_allocated + 2
                           /\ IF current_seat_in_hall + 1 > hall_capacity
                              THEN current_hall_depts' = {}
                              ELSE current_hall_depts' =
                                       current_hall_depts \cup {dept1, dept2}
                    ELSE /\ allocations' = Append(allocations, first)
                         /\ dept_pointers' = pointers1
                         /\ total_allocated' = total_allocated + 1
                         /\ IF current_seat_in_hall + 1 > hall_capacity
                            THEN current_hall_depts' = {}
                            ELSE current_hall_depts' = current_hall_depts \cup {dept1}
                 /\ IF current_seat_in_hall + 1 > hall_capacity
                    THEN /\ current_hall_position' = current_hall_position + 1
                         /\ current_seat_in_hall' = 1
                    ELSE /\ current_seat_in_hall' = current_seat_in_hall + 1
                         /\ UNCHANGED current_hall_position
    /\ UNCHANGED <<pc, exam_type, halls_df, dept_groups, optimal_halls>>
    /\ UNCHANGED schedVars
    /\ UNCHANGED gapVars
    /\ UNCHANGED dateVars
    /\ UNCHANGED poolVars
    /\ UNCHANGED teachVars
    /\ UNCHANGED saveVars
    /\ UNCHANGED mainVars

\* what follows the loop when it never ran: the Internal allocator reads
\* hall_capacity, which is unbound (line 439); the SEM allocator returns an
\* empty list, and _create_hall_wise_summary then indexes the column-less
\* DataFrame with 'Hall No' (lines 246-250, 569)
AfterLoopError(etype, allocs) ==
    IF allocs # <<>> THEN ""
    ELSE IF etype = "Internal" THEN "UnboundLocalError" ELSE "KeyError"

\* the while condition fails, or no department has a student left
\* (seating_allocation.py 331-336, 434-440, 246-252)
FinishAllocation ==
    /\ pc = "seat_loop"
    /\ ~LoopRuns
    /\ pc' = "seat_done"
    /\ IF AfterLoopError(exam_type, allocations) = ""
       THEN /\ result' = "returned"
            /\ UNCHANGED error
       ELSE /\ result' = "raised"
            /\ error' = [NoError EXCEPT !.kind = AfterLoopError(exam_type, allocations)]
    /\ UNCHANGED seatVars
    /\ UNCHANGED <<available_dates, db_subjects, db_arrears, semester_type,
                   odd_subjects, even_subjects, subjects, schedule, violations>>
    /\ UNCHANGED gapVars
    /\ UNCHANGED dateVars
    /\ UNCHANGED poolVars
    /\ UNCHANGED teachVars
    /\ UNCHANGED saveVars
    /\ UNCHANGED mainVars

NextSeat == SelectHalls \/ AllocateSem \/ AllocateInternal \/ FinishAllocation

SpecSeat == InitSeat /\ [][NextSeat]_vars

LastExams ==
    {NoExam} \cup [date : 0..MaxGapDay, session : Sessions, subject_type : SubjectTypes]

InitGap ==
    /\ pc = "gap_call"
    /\ DateIdle
    /\ SaveIdle
    /\ TeachIdle
    /\ PoolIdle
    /\ SchedIdle
    /\ SeatIdle
    /\ last_exam \in LastExams
    /\ new_date \in 0..MaxGapDay
    /\ new_session \in Sessions
    /\ gap_result = [valid |-> TRUE, message |-> ""]
    /\ MainIdle

ValidateGap ==
    /\ pc = "gap_call"
    /\ gap_result' = validate_gap_constraint(last_exam, new_date, new_session)
    /\ pc' = "gap_done"
    /\ UNCHANGED <<last_exam, new_date, new_session>>
    /\ UNCHANGED schedVars
    /\ UNCHANGED seatVars
    /\ UNCHANGED dateVars
    /\ UNCHANGED poolVars
    /\ UNCHANGED teachVars
    /\ UNCHANGED saveVars
    /\ UNCHANGED mainVars

NextGap == ValidateGap

SpecGap == InitGap /\ [][NextGap]_vars

\* ------------------------------------- generate_available_dates, called alone
DateInputs == {DateString(d, 12, 2025) : d \in 16..MaxDateDay}

HolidayLists == {h \in SUBSET DateInputs : Cardinality(h) <= 1}

InitDates ==
    /\ pc = "dates_call"
    /\ SaveIdle
    /\ TeachIdle
    /\ PoolIdle
    /\ SchedIdle
    /\ GapIdle
    /\ SeatIdle
    /\ start_date \in DateInputs
    /\ end_date \in DateInputs
    /\ holidays \in HolidayLists
    /\ MainIdle

GenerateDates ==
    /\ pc = "dates_call"
    /\ available_dates' = GenerateDateStrings(start_date, end_date, holidays)
    /\ result' = "returned"
    /\ pc' = "dates_done"
    /\ UNCHANGED <<db_subjects, db_arrears, semester_type, odd_subjects,
                   even_subjects, subjects, schedule, violations, error>>
    /\ UNCHANGED gapVars
    /\ UNCHANGED seatVars
    /\ UNCHANGED dateVars
    /\ UNCHANGED poolVars
    /\ UNCHANGED teachVars
    /\ UNCHANGED saveVars
    /\ UNCHANGED mainVars

NextDates == GenerateDates

SpecDates == InitDates /\ [][NextDates]_vars

\* ---------------------------------------- get_subjects_for_year, called alone
\* subjects of one department that differ in parity and exam_type
PoolRows ==
    [department : {"CSE"}, semester_type : Parities,
     subject_type : {"HEAVY"}, exam_type : ExamTypeValues]

PoolTables(n) == UNION {[1..k -> PoolRows] : k \in 0..n}

\* the student_subjects rows of one subject: how many students carry it with
\* is_arrear = 1, split by students.active, and how many with is_arrear = 0
EnrolmentRows ==
    [arrear_active : ArrearCounts, arrear_inactive : ArrearCounts,
     regular : ArrearCounts]

\* COUNT(DISTINCT ss.student_id) over the join of subjects and student_subjects
\* with ss.is_arrear = 1; the students table is not joined
ArrearStudentCounts(enrolments) ==
    [id \in DOMAIN enrolments |->
        enrolments[id].arrear_active + enrolments[id].arrear_inactive]

InitPool ==
    /\ pc = "pool_call"
    /\ SaveIdle
    /\ TeachIdle
    /\ DateIdle
    /\ GapIdle
    /\ SeatIdle
    /\ requested_exam_type \in {"SEMESTER", "INTERNAL"}
    /\ semester_type \in Parities
    /\ db_subjects \in PoolTables(MaxPoolSubjects)
    /\ db_student_subjects \in [1..Len(db_subjects) -> EnrolmentRows]
    /\ db_arrears = ArrearStudentCounts(db_student_subjects)
    /\ available_dates = <<>>
    /\ odd_subjects = <<>>
    /\ even_subjects = <<>>
    /\ subjects = <<>>
    /\ schedule = <<>>
    /\ violations = <<>>
    /\ result = "none"
    /\ error = NoError
    /\ MainIdle

ResolvePool ==
    /\ pc = "pool_call"
    /\ subjects' = get_subjects_for_year(db_subjects, db_arrears,
                                         requested_exam_type, semester_type)
    /\ result' = "returned"
    /\ pc' = "pool_done"
    /\ UNCHANGED <<available_dates, db_subjects, db_arrears, semester_type,
                   odd_subjects, even_subjects, schedule, violations, error>>
    /\ UNCHANGED gapVars
    /\ UNCHANGED seatVars
    /\ UNCHANGED dateVars
    /\ UNCHANGED poolVars
    /\ UNCHANGED teachVars
    /\ UNCHANGED saveVars
    /\ UNCHANGED mainVars

NextPool == ResolvePool

SpecPool == InitPool /\ [][NextPool]_vars

\* ------------------------- _create_hall_wise_summary and assign_teachers
\* the 'Hall No' column of an allocation result: one hall number per seat row
SeatRowHalls(n) == UNION {[1..k -> 1..MaxHallNo] : k \in 0..n}

\* a roster name as stored: its text, possibly followed by blanks
RawNames == [text : {"Anand", "Bala", "Chitra"}, trailing_blank : BOOLEAN]

\* rosters that list each teacher once
TeacherRosters(n) ==
    {r \in UNION {[1..k -> RawNames] : k \in 0..n} :
        \A i, j \in 1..Len(r) : i # j => r[i].text # r[j].text}

\* str.strip()
strip(raw) == raw.text

\* Series.unique(): the values in order of first appearance
RECURSIVE unique(_)
unique(column) ==
    IF column = <<>> THEN <<>>
    ELSE LET rest == unique(SubSeq(column, 1, Len(column) - 1))
             last == column[Len(column)]
         IN  IF \E i \in 1..Len(rest) : rest[i] = last THEN rest ELSE Append(rest, last)

\* variant: the halls are taken in the order the allocation reached them
sorted_AsInserted(keys) == keys

\* sorted(self.hall_wise_allocations.keys())
sorted(keys) ==
    LET S == {keys[i] : i \in 1..Len(keys)}
    IN  [i \in 1..Cardinality(S) |->
            CHOOSE h \in S : Cardinality({g \in S : g < h}) = i - 1]

\* the one-to-one loop over enumerate(halls_used)
assign_teachers(assignments, halls_used, teachers_list) ==
    [h \in DOMAIN assignments \cup {halls_used[i] : i \in 1..Len(halls_used)} |->
        IF \E i \in 1..Len(halls_used) : halls_used[i] = h
        THEN LET idx == CHOOSE i \in 1..Len(halls_used) : halls_used[i] = h
             IN  IF idx <= Len(teachers_list) THEN teachers_list[idx]
                 ELSE "To be assigned"
        ELSE assignments[h]]

InitTeach ==
    /\ pc = "teach_start"
    /\ SaveIdle
    /\ DateIdle
    /\ PoolIdle
    /\ SchedIdle
    /\ GapIdle
    /\ exam_type = "SEM"
    /\ halls_df = <<>>
    /\ dept_groups = [d \in SeatDepartments |-> 0]
    /\ optimal_halls = <<>>
    /\ dept_pointers = [d \in SeatDepartments |-> 0]
    /\ \E column \in SeatRowHalls(MaxSeatRows) :
          allocations = [i \in 1..Len(column) |-> SeatRecord(column[i], i, "CSE", i - 1)]
    /\ current_hall_position = 0
    /\ current_seat_in_hall = 1
    /\ total_allocated = 0
    /\ current_hall_depts = {}
    /\ hall_wise_allocations = <<>>
    /\ teachers_df \in TeacherRosters(MaxTeachers)
    /\ teacher_assignments = <<>>
    /\ MainIdle

\* seating_allocation.py 565-572
CreateHallWiseSummary ==
    /\ pc = "teach_start"
    /\ hall_wise_allocations' =
           unique([i \in 1..Len(allocations) |-> allocations[i].hall_no])
    /\ pc' = "teach_summary"
    /\ UNCHANGED <<teachers_df, teacher_assignments>>
    /\ UNCHANGED schedVars
    /\ UNCHANGED gapVars
    /\ UNCHANGED seatVars
    /\ UNCHANGED dateVars
    /\ UNCHANGED poolVars
    /\ UNCHANGED saveVars
    /\ UNCHANGED mainVars

\* seating_allocation.py 574-592
AssignTeachers ==
    /\ pc = "teach_summary"
    /\ teacher_assignments' =
           assign_teachers(teacher_assignments, sorted(hall_wise_allocations),
                           [i \in 1..Len(teachers_df) |-> strip(teachers_df[i])])
    /\ pc' = "teach_done"
    /\ UNCHANGED <<hall_wise_allocations, teachers_df>>
    /\ UNCHANGED schedVars
    /\ UNCHANGED gapVars
    /\ UNCHANGED seatVars
    /\ UNCHANGED dateVars
    /\ UNCHANGED poolVars
    /\ UNCHANGED saveVars
    /\ UNCHANGED mainVars

NextTeach == CreateHallWiseSummary \/ AssignTeachers

SpecTeach == InitTeach /\ [][NextTeach]_vars

\* ------------------------------------------------- save_allocation_to_db
\* the halls and students tables: hall 1 and the student with reg_no 1 exist
HallsTable == {1}
StudentsTable == {1}

SaveDates == {"20.12.2025", "22.12.2025"}
SaveSessions == {"FN", "AN"}

\* the allocations a saving object can hold: up to two rows, students distinct
SaveFrames ==
    {[i \in 1..Len(f) |-> SeatRecord(f[i].hall_no, i, "CSE", f[i].reg_no)] :
        f \in {g \in UNION {[1..k -> [hall_no : {1, 2}, reg_no : {1, 2}]] : k \in 0..2} :
                  \A i, j \in 1..Len(g) : i # j => g[i].reg_no # g[j].reg_no}}

\* variant: DELETE ... WHERE exam_date = ?
DeleteExisting_DateOnly(table, exam_date, session) ==
    SelectSeq(table, LAMBDA r : r.exam_date # exam_date)

\* DELETE FROM seating_allocations WHERE exam_date = ? AND session = ?
DeleteExisting(table, exam_date, session) ==
    SelectSeq(table, LAMBDA r : ~(r.exam_date = exam_date /\ r.session = session))

\* the INSERT loop: rows whose hall or student is not found are skipped
RECURSIVE InsertRows(_, _, _)
InsertRows(frame, exam_date, session) ==
    IF frame = <<>> THEN <<>>
    ELSE (IF Head(frame).hall_no \in HallsTable /\ Head(frame).student \in StudentsTable
          THEN <<[exam_date |-> exam_date, session |-> session,
                  hall_name |-> Head(frame).hall_no, reg_no |-> Head(frame).student,
                  seat_no |-> Head(frame).seat_no]>>
          ELSE <<>>)
         \o InsertRows(Tail(frame), exam_date, session)

InitSave ==
    /\ pc = "save_call"
    /\ DateIdle
    /\ PoolIdle
    /\ TeachIdle
    /\ SchedIdle
    /\ GapIdle
    /\ SeatIdle
    /\ seating_allocations = <<>>
    /\ self_exam_date = NoDate
    /\ self_session = "FN"
    /\ records_saved = 0
    /\ MainIdle

\* seating_allocation.py 1107-1195: one object saves its allocation
SaveAllocation ==
    /\ pc = "save_call"
    /\ \E frame \in SaveFrames, exam_date \in SaveDates \cup {NoDate},
          session \in SaveSessions :
          /\ allocations' = frame
          /\ self_exam_date' = exam_date
          /\ self_session' = session
          /\ IF frame = <<>> \/ exam_date = NoDate
             THEN /\ records_saved' = 0
                  /\ UNCHANGED seating_allocations
             ELSE /\ seating_allocations' =
                         DeleteExisting(seating_allocations, exam_date, session)
                         \o InsertRows(frame, exam_date, session)
                  /\ records_saved' = Len(InsertRows(frame, exam_date, session))
    /\ UNCHANGED <<pc, exam_type, halls_df, dept_groups, optimal_halls, dept_pointers,
                   current_hall_position, current_seat_in_hall, total_allocated,
                   current_hall_depts>>
    /\ UNCHANGED schedVars
    /\ UNCHANGED gapVars
    /\ UNCHANGED dateVars
    /\ UNCHANGED poolVars
    /\ UNCHANGED teachVars
    /\ UNCHANGED mainVars

NextSave == SaveAllocation

SpecSave == InitSave /\ [][NextSave]_vars

\* ----------------------------------------------------------- main (CLI)
\* what input(...).strip().lower() can give; anything but 'y' declines
Answers == {"y", "n", "yes"}

\* variant: every answer other than 'n' proceeds
Proceeds_UnlessNo(answer) == answer # "n"

\* the tests "!= 'y'" / "== 'y'" of main.py 438, 479, 506, 519
Proceeds(answer) == answer = "y"

\* the rows of the two stored tables that the model keeps
CycleRow(etype) == [exam_type |-> etype, status |-> "ACTIVE"]

ScheduleRow(cycle_id, item) ==
    [cycle_id |-> cycle_id, subject_id |-> item.subject_id,
     exam_date |-> item.date, session |-> item.session]

ViolationRow(cycle_id, violation) ==
    [cycle_id |-> cycle_id, subject_id |-> violation.subject_id]

MainDays == 0..MaxMainDay

\* the store before the run: empty, or one earlier cycle with one stored exam
InitMain ==
    /\ pc = "main_confirm"
    /\ DateIdle
    /\ SaveIdle
    /\ TeachIdle
    /\ PoolIdle
    /\ SchedIdle
    /\ GapIdle
    /\ SeatIdle
    /\ main_exam_type = "SEMESTER"
    /\ confirm = NotAsked
    /\ override_choice = NotAsked
    /\ modify_choice = NotAsked
    /\ final_confirm = NotAsked
    /\ \/ /\ exam_cycles = <<>>
          /\ schedules = <<>>
       \/ /\ exam_cycles = <<CycleRow("INTERNAL")>>
          /\ schedules = <<[cycle_id |-> 1, subject_id |-> 1,
                            exam_date |-> 0, session |-> "FN"]>>
    /\ schedule_violations = <<>>

\* main.py 421-441: "Proceed with scheduling? (y/n)"
MainConfirm ==
    /\ pc = "main_confirm"
    /\ \E answer \in Answers :
          /\ confirm' = answer
          /\ pc' = IF Proceeds(answer) THEN "main_schedule" ELSE "main_exit"
    /\ UNCHANGED <<main_exam_type, override_choice, modify_choice, final_confirm,
                   exam_cycles, schedules, schedule_violations>>
    /\ UNCHANGED schedVars
    /\ UNCHANGED gapVars
    /\ UNCHANGED seatVars
    /\ UNCHANGED dateVars
    /\ UNCHANGED poolVars
    /\ UNCHANGED teachVars
    /\ UNCHANGED saveVars

\* main.py 447-450 with 545-552: the semester scheduler is called with the
\* parameters entered (holidays is always [], line 407); a ValueError ends
\* the run
MainScheduleSemester ==
    /\ pc = "main_schedule"
    /\ main_exam_type' = "SEMESTER"
    /\ \E start \in MainDays, end \in MainDays :
         available_dates' = generate_available_dates(start, end, {})
    /\ IF available_dates' = <<>>
       THEN /\ result' = "raised"
            /\ error' = [NoError EXCEPT !.kind = "NoAvailableDates"]
            /\ pc' = "main_exit"
            /\ UNCHANGED <<db_subjects, db_arrears, semester_type, odd_subjects,
                           even_subjects, schedule, violations>>
       ELSE /\ \E tbl \in RoundTables(MaxMainSubjects), sem \in Parities :
                 \E arrears \in ArrearTables(Len(tbl)) :
                    \E odd \in {get_subjects_for_year(tbl, arrears, "SEMESTER", "ODD")},
                       even \in {get_subjects_for_year(tbl, arrears, "SEMESTER", "EVEN")} :
                        /\ db_subjects' = tbl
                        /\ db_arrears' = arrears
                        /\ semester_type' = sem
                        /\ odd_subjects' = odd
                        /\ even_subjects' = even
                        /\ schedule' = schedule_semester_exams(available_dates', odd,
                                                               even, sem)
            /\ violations' = <<>>
            /\ result' = "returned"
            /\ pc' = "main_review"
            /\ UNCHANGED error
    /\ UNCHANGED subjects
    /\ UNCHANGED <<confirm, override_choice, modify_choice, final_confirm,
                   exam_cycles, schedules, schedule_violations>>
    /\ UNCHANGED gapVars
    /\ UNCHANGED seatVars
    /\ UNCHANGED dateVars
    /\ UNCHANGED poolVars
    /\ UNCHANGED teachVars
    /\ UNCHANGED saveVars

\* main.py 451-454 with 545-552: the internal scheduler is called
MainScheduleInternal ==
    /\ pc = "main_schedule"
    /\ main_exam_type' = "INTERNAL"
    /\ \E start \in MainDays, end \in MainDays :
         available_dates' = generate_available_dates(start, end, {})
    /\ IF available_dates' = <<>>
       THEN /\ result' = "raised"
            /\ error' = [NoError EXCEPT !.kind = "NoAvailableDates"]
            /\ pc' = "main_exit"
            /\ UNCHANGED <<db_subjects, semester_type, subjects, schedule, violations>>
       ELSE \E tbl \in RoundTables(MaxMainSubjects), sem \in Parities :
             \E pool \in {get_subjects_for_year(tbl, <<>>, "INTERNAL", sem)} :
                LET max_subjects_per_dept == MaxPerDept(GroupByDept(pool))
                    n_dates == Len(available_dates')
                    slots == BuildSlots(available_dates',
                                        SessionsFor(n_dates, max_subjects_per_dept))
                    filled == FillSlots(pool, slots,
                                        [schedule |-> <<>>, violations |-> <<>>,
                                         usage |-> {}])
                IN  /\ db_subjects' = tbl
                    /\ semester_type' = sem
                    /\ subjects' = pool
                    /\ IF pool = <<>>
                       THEN /\ result' = "raised"
                            /\ error' = [NoError EXCEPT !.kind = "NoSubjects"]
                            /\ pc' = "main_exit"
                            /\ UNCHANGED <<schedule, violations>>
                       ELSE IF InsufficientDates(n_dates, max_subjects_per_dept)
                       THEN /\ result' = "raised"
                            /\ error' = [kind |-> "InsufficientDates",
                                         min_days |-> MinDaysNamed(max_subjects_per_dept),
                                         available |-> n_dates]
                            /\ pc' = "main_exit"
                            /\ UNCHANGED <<schedule, violations>>
                       ELSE \E done \in {filled} :
                            /\ result' = "returned"
                            /\ UNCHANGED error
                            /\ schedule' = done.schedule
                            /\ violations' = done.violations
                            /\ pc' = "main_review"
    /\ UNCHANGED <<db_arrears, odd_subjects, even_subjects>>
    /\ UNCHANGED <<confirm, override_choice, modify_choice, final_confirm,
                   exam_cycles, schedules, schedule_violations>>
    /\ UNCHANGED gapVars
    /\ UNCHANGED seatVars
    /\ UNCHANGED dateVars
    /\ UNCHANGED poolVars
    /\ UNCHANGED teachVars
    /\ UNCHANGED saveVars

\* main.py 466-488: with violations the override prompt is shown, and any
\* answer but 'y' ends the run; without violations the run goes on
MainReview ==
    /\ pc = "main_review"
    /\ IF violations # <<>>
       THEN \E answer \in Answers :
              /\ override_choice' = answer
              /\ pc' = IF Proceeds(answer) THEN "main_modify_prompt" ELSE "main_exit"
       ELSE /\ UNCHANGED override_choice
            /\ pc' = "main_modify_prompt"
    /\ UNCHANGED <<main_exam_type, confirm, modify_choice, final_confirm,
                   exam_cycles, schedules, schedule_violations>>
    /\ UNCHANGED schedVars
    /\ UNCHANGED gapVars
    /\ UNCHANGED seatVars
    /\ UNCHANGED dateVars
    /\ UNCHANGED poolVars
    /\ UNCHANGED teachVars
    /\ UNCHANGED saveVars

\* main.py 504-509: "Do you want to modify the schedule? (y/n)"
MainModifyPrompt ==
    /\ pc = "main_modify_prompt"
    /\ \E answer \in Answers :
          /\ modify_choice' = answer
          /\ pc' = IF Proceeds(answer) THEN "main_modify" ELSE "main_final"
    /\ UNCHANGED <<main_exam_type, confirm, override_choice, final_confirm,
                   exam_cycles, schedules, schedule_violations>>
    /\ UNCHANGED schedVars
    /\ UNCHANGED gapVars
    /\ UNCHANGED seatVars
    /\ UNCHANGED dateVars
    /\ UNCHANGED poolVars
    /\ UNCHANGED teachVars
    /\ UNCHANGED saveVars

\* main.py 197-257: option 2 of modify_schedule_interactive; date_choice 0
\* and session_choice "" stand for pressing Enter (keep the current value)
MainModifyExam ==
    /\ pc = "main_modify"
    /\ \E exam_idx \in 1..Len(schedule), date_choice \in 0..Len(available_dates),
          session_choice \in {"", "FN", "AN"} :
          schedule' = [schedule EXCEPT
                          ![exam_idx].date =
                              IF date_choice = 0 THEN @ ELSE available_dates[date_choice],
                          ![exam_idx].session =
                              IF session_choice = "" THEN @ ELSE session_choice]
    /\ UNCHANGED <<pc, available_dates, db_subjects, db_arrears, semester_type,
                   odd_subjects, even_subjects, subjects, violations, result, error>>
    /\ UNCHANGED mainVars
    /\ UNCHANGED gapVars
    /\ UNCHANGED seatVars
    /\ UNCHANGED dateVars
    /\ UNCHANGED poolVars
    /\ UNCHANGED teachVars
    /\ UNCHANGED saveVars

\* main.py 263-266: option 3 of modify_schedule_interactive
MainModifyFinish ==
    /\ pc = "main_modify"
    /\ pc' = "main_final"
    /\ UNCHANGED mainVars
    /\ UNCHANGED schedVars
    /\ UNCHANGED gapVars
    /\ UNCHANGED seatVars
    /\ UNCHANGED dateVars
    /\ UNCHANGED poolVars
    /\ UNCHANGED teachVars
    /\ UNCHANGED saveVars

\* main.py 517-526 with scheduler.py 458-504: "Confirm and save this
\* schedule? (y/n)"; on 'y' create_exam_cycle inserts the cycle and
\* save_schedule_to_db the schedule and the violations under its rowid
MainFinalConfirm ==
    /\ pc = "main_final"
    /\ \E answer \in Answers :
          /\ final_confirm' = answer
          /\ IF Proceeds(answer)
             THEN LET cycle_id == Len(exam_cycles) + 1
                  IN  /\ exam_cycles' = Append(exam_cycles, CycleRow(main_exam_type))
                      /\ schedules' = schedules \o
                             [i \in 1..Len(schedule) |-> ScheduleRow(cycle_id, schedule[i])]
                      /\ schedule_violations' = schedule_violations \o
                             [i \in 1..Len(violations) |->
                                 ViolationRow(cycle_id, violations[i])]
             ELSE UNCHANGED <<exam_cycles, schedules, schedule_violations>>
    /\ pc' = "main_exit"
    /\ UNCHANGED <<main_exam_type, confirm, override_choice, modify_choice>>
    /\ UNCHANGED schedVars
    /\ UNCHANGED gapVars
    /\ UNCHANGED seatVars
    /\ UNCHANGED dateVars
    /\ UNCHANGED poolVars
    /\ UNCHANGED teachVars
    /\ UNCHANGED saveVars

NextMain ==
    \/ MainConfirm \/ MainScheduleSemester \/ MainScheduleInternal \/ MainReview
    \/ MainModifyPrompt \/ MainModifyExam \/ MainModifyFinish \/ MainFinalConfirm

SpecMain == InitMain /\ [][NextMain]_vars

Init ==
    InitSem \/ InitInt \/ InitGap \/ InitSeat \/ InitDates \/ InitPool \/ InitTeach
        \/ InitSave \/ InitMain

Next ==
    NextSem \/ NextRound \/ NextInt \/ NextGap \/ NextSeat \/ NextDates \/ NextPool
        \/ NextTeach \/ NextSave \/ NextMain

Spec == Init /\ [][Next]_vars

\* ======================================================== claims C1 .. C10

\* C1: in every schedule returned by schedule_semester_exams no two entries
\* have both the same department and the same date.
C1_DeptDateExclusive ==
    (pc = "done" /\ result = "returned") =>
        \A i, j \in 1..Len(schedule) :
            i # j => ~(/\ schedule[i].department = schedule[j].department
                       /\ schedule[i].date = schedule[j].date)

C1_Witness ==
    /\ pc = "done" /\ result = "returned"
    /\ \E i, j \in 1..Len(schedule) :
          /\ i # j
          /\ schedule[i].department = schedule[j].department
          /\ schedule[i].semester_type = schedule[j].semester_type

\* C2: for every HEAVY exam followed by another exam of the same department in
\* a returned semester schedule, the later exam is at least 2 days after it or
\* a GAP_CONSTRAINT violation references the subject.
C2_HeavyGapOrViolation ==
    (pc = "done" /\ result = "returned") =>
        \A i, j \in 1..Len(schedule) :
            (/\ schedule[i].subject_type = "HEAVY"
             /\ schedule[i].department = schedule[j].department
             /\ schedule[j].date > schedule[i].date
             /\ schedule[j].date - schedule[i].date < 2)
            => \E k \in 1..Len(violations) :
                  /\ violations[k].violation_type = "GAP_CONSTRAINT"
                  /\ violations[k].subject_id \in
                         {schedule[i].subject_id, schedule[j].subject_id}

\* C3: validate_gap_constraint is valid when there is no last exam, and is
\* otherwise invalid exactly when the last exam was HEAVY and the new date is
\* fewer than 2 days after it, or it was NONMAJOR and the new exam is the same
\* day and session, or it was in AN and the new exam is next day's FN.
C3_GapRule ==
    pc = "gap_done" =>
        IF last_exam = NoExam THEN gap_result.valid
        ELSE gap_result.valid <=>
             ~(\/ (last_exam.subject_type = "HEAVY" /\ new_date - last_exam.date < 2)
               \/ (/\ last_exam.subject_type = "NONMAJOR"
                   /\ new_date = last_exam.date
                   /\ new_session = last_exam.session)
               \/ (/\ last_exam.session = "AN"
                   /\ new_date = last_exam.date + 1
                   /\ new_session = "FN"))

C3_Witness ==
    /\ pc = "gap_done"
    /\ last_exam # NoExam
    /\ last_exam.subject_type = "HEAVY"
    /\ new_date = last_exam.date + 1
    /\ ~gap_result.valid

\* ceil(a / b) for naturals
CeilDiv(a, b) == (a + b - 1) \div b

PoolMaxPerDept == MaxPerDept(GroupByDept(subjects))

SessionsPerDay == IF Len(available_dates) < PoolMaxPerDept THEN 2 ELSE 1

InternalPastChecks ==
    pc = "done" /\ available_dates # <<>> /\ subjects # <<>>

\* C4: schedule_internal_exams raises the insufficient-dates error if and only
\* if the number of available dates is less than ceil(maxPerDept / sessionsPerDay).
C4_InsufficientIff ==
    InternalPastChecks =>
        ((error.kind = "InsufficientDates")
            <=> (Len(available_dates) < CeilDiv(PoolMaxPerDept, SessionsPerDay)))

\* C5: the minimum number of days named in the insufficient-dates error is the
\* computed minimum and is strictly greater than the available days it names.
C5_NamedMinimumExceedsAvailable ==
    error.kind = "InsufficientDates" =>
        /\ error.min_days = CeilDiv(PoolMaxPerDept, 2)
        /\ error.available = Len(available_dates)
        /\ error.min_days > error.available

\* the slot list the policy builds from the available dates
BuiltSlots ==
    BuildSlots(available_dates, SessionsFor(Len(available_dates), PoolMaxPerDept))

ScheduledIds == {schedule[i].subject_id : i \in 1..Len(schedule)}

C7_FatalOnEmptyInputs ==
    (/\ pc = "done"
     /\ \/ available_dates = <<>>
        \/ (subjects = <<>> /\ odd_subjects = <<>> /\ even_subjects = <<>>))
    => (result = "raised" /\ schedule = <<>>)

\* the priority order of the claim: track, weight class, department, code
PriorityKey(x) ==
    <<IF x.subject_track = "REGULAR" THEN 0 ELSE 1,
      IF x.subject_type = "HEAVY" THEN 0 ELSE 1,
      DeptRank[x.department],
      x.subject_code>>

InPriorityOrder(pool) ==
    \A i, j \in 1..Len(pool) :
        i < j => ~KeyLess(PriorityKey(pool[j]), PriorityKey(pool[i]))

\* C8: the list returned by get_subjects_for_year is sorted regular before
\* arrear, then HEAVY before NONMAJOR, then by department, then by code.
C8_PriorityOrder ==
    pc = "done" =>
        /\ InPriorityOrder(odd_subjects)
        /\ InPriorityOrder(even_subjects)
        /\ InPriorityOrder(subjects)

HallCount(h) ==
    Cardinality({i \in 1..Len(allocations) : allocations[i].hall_no = h})

\* C9: the number of students assigned to a hall never exceeds its capacity
\* (bench count times seats per bench for the mode).
C9_HallCapacityRespected ==
    \A h \in 1..Len(halls_df) :
        HallCount(h) <= effective_capacity(halls_df[h], exam_type)

HallDepts(h) ==
    {allocations[i].department : i \in {k \in 1..Len(allocations) :
                                            allocations[k].hall_no = h}}

FirstSeatOf(h) ==
    CHOOSE i \in 1..Len(allocations) :
        /\ allocations[i].hall_no = h
        /\ \A k \in 1..(i - 1) : allocations[k].hall_no # h

\* departments that still had unseated students when hall h began to fill
DeptsLeftAtStart(h) ==
    {d \in SeatDepartments :
        dept_groups[d] >
            Cardinality({k \in 1..(FirstSeatOf(h) - 1) : allocations[k].department = d})}

\* C10: a hall holding at least 2 students, for which at least 2 departments
\* still had unseated students when its filling began, holds students of at
\* least 2 distinct departments, whatever the random choices.
C10_HallDiversity ==
    \A h \in 1..Len(halls_df) :
        (HallCount(h) >= 2 /\ Cardinality(DeptsLeftAtStart(h)) >= 2)
            => Cardinality(HallDepts(h)) >= 2

C10_Witness ==
    /\ pc = "seat_done"
    /\ exam_type = "SEM"
    /\ \E h \in 1..Len(halls_df) :
          /\ HallCount(h) >= 2
          /\ Cardinality(DeptsLeftAtStart(h)) >= 2
          /\ \E d \in HallDepts(h) : dept_groups[d] >= 2
          /\ Cardinality(HallDepts(h)) >= 2

\* ======================================================= claims C11 .. C20

Min2(a, b) == IF a <= b THEN a ELSE b

RECURSIVE CapacitySum(_, _)
CapacitySum(S, etype) ==
    IF S = {} THEN 0
    ELSE LET h == CHOOSE x \in S : TRUE
         IN  effective_capacity(halls_df[h], etype) + CapacitySum(S \ {h}, etype)

\* the halls the allocator was given to fill
SelectedHalls == {optimal_halls[i] : i \in 1..Len(optimal_halls)}

FilledHalls == {h \in 1..Len(halls_df) : HallCount(h) > 0}

AllHalls == 1..Len(halls_df)

SeatingReturned == pc = "seat_done" /\ result = "returned"

\* catalogs in which every hall has at least one bench
PositiveCatalog == \A h \in AllHalls : halls_df[h].capacity >= 1

\* C11: the number of students seated equals min(roster size, total effective
\* capacity of the selected halls), in both occupancy modes (stated here for
\* catalogs without empty halls).
C11_SeatedIsMinimum ==
    (SeatingReturned /\ PositiveCatalog) =>
        Len(allocations) = Min2(TotalStudents(dept_groups),
                                CapacitySum(SelectedHalls, exam_type))

\* C12: the halls actually filled are the halls of smallest effective
\* capacity: every filled hall is no larger than every hall left out,
\* whatever the order of the catalog (stated here for catalogs without empty
\* halls).
C12_SmallestHallsFilled ==
    (pc = "seat_done" /\ PositiveCatalog) =>
        \A h \in FilledHalls : \A g \in AllHalls \ FilledHalls :
            effective_capacity(halls_df[h], exam_type)
                <= effective_capacity(halls_df[g], exam_type)

SetMin(S) == IF S = {} THEN 0 ELSE CHOOSE m \in S : \A x \in S : m <= x

\* len(self.students_df)
RosterTotal == TotalStudents(dept_groups)

HallsChosen == pc \in {"seat_loop", "seat_done"}

CatalogCovers == CapacitySum(AllHalls, exam_type) >= RosterTotal

CoveringSubsets ==
    {S \in SUBSET AllHalls : CapacitySum(S, exam_type) >= RosterTotal}

\* the combined effective capacity of the k smallest halls of the catalog
MinCapacityOfSize(k) ==
    SetMin({CapacitySum(S, exam_type) :
                S \in {T \in SUBSET AllHalls : Cardinality(T) = k}})

SameSeat(i, j) ==
    /\ allocations[i].hall_no = allocations[j].hall_no
    /\ allocations[i].seat_no = allocations[j].seat_no

\* C14 (as stated): no two seat assignments of one hall carry the same seat
\* number, in ONE_PER_BENCH and in TWO_PER_BENCH mode.
C14_SeatNumbersUnique ==
    \A i, j \in 1..Len(allocations) : i # j => ~SameSeat(i, j)

\* C14 (amended): in ONE_PER_BENCH mode seat numbers are unique within each
\* hall; in TWO_PER_BENCH mode a seat number of a hall is carried by at most
\* two assignments, the two bench-mates, who are consecutive in the output
\* and of different departments.
C14_SeatSharedOnlyByBenchMates ==
    \A i, j \in 1..Len(allocations) :
        (i < j /\ SameSeat(i, j)) =>
            /\ exam_type = "Internal"
            /\ j = i + 1
            /\ allocations[i].department # allocations[j].department
            /\ \A k \in 1..Len(allocations) : SameSeat(i, k) => k \in {i, j}

\* a TWO_PER_BENCH run seated a bench pair and a further bench in one hall
C14_Witness ==
    /\ pc = "seat_done"
    /\ exam_type = "Internal"
    /\ \E i, j, k \in 1..Len(allocations) :
          /\ i < j /\ SameSeat(i, j)
          /\ allocations[k].hall_no = allocations[i].hall_no
          /\ allocations[k].seat_no # allocations[i].seat_no

\* the departments the bench-mate of a dept1 student is drawn from (line 404)
BenchMateChoices(dept1) ==
    AvailableDepts(dept_groups, [dept_pointers EXCEPT ![dept1] = @ + 1]) \ {dept1}

\* C15: two runs on the same roster, catalog and mode give the same sequence
\* of seat assignments: at every iteration of the allocation loop the next
\* department, and the bench-mate's department, has one possible outcome
\* (stated here for catalogs without empty halls).
C15_ChoicesDetermined ==
    (pc = "seat_loop" /\ LoopRuns /\ PositiveCatalog) =>
        LET choices == DiverseChoices(AvailableDepts(dept_groups, dept_pointers),
                                      current_hall_depts)
        IN  /\ Cardinality(choices) = 1
            /\ exam_type = "Internal" =>
                   \A dept1 \in choices : Cardinality(BenchMateChoices(dept1)) <= 1

\* C16: when the roster is larger than the effective capacity of the whole
\* catalog the allocator returns, was given every hall of the catalog, seats
\* no more students than fit and fewer than the roster (stated here for
\* catalogs without empty halls).
C16_ShortfallNeverRaises ==
    (pc = "seat_done" /\ PositiveCatalog
                      /\ RosterTotal > CapacitySum(AllHalls, exam_type)) =>
        /\ result = "returned"
        /\ SelectedHalls = AllHalls
        /\ Len(allocations) <= CapacitySum(AllHalls, exam_type)
        /\ Len(allocations) < RosterTotal

\* chronological order of two DD.MM.YYYY dates
Before(a, b) ==
    \/ a.year < b.year
    \/ a.year = b.year /\ a.month < b.month
    \/ a.year = b.year /\ a.month = b.month /\ a.day < b.day

\* the calendar days of December 2025, and its Sundays
December2025 == {DateString(d, 12, 2025) : d \in 1..31}

Sundays2025 == {DateString(d, 12, 2025) : d \in {7, 14, 21, 28}}

AvailableSet == {available_dates[i] : i \in 1..Len(available_dates)}

\* C17: generate_available_dates returns exactly the dates from start to end
\* inclusive that are neither a Sunday nor a listed holiday, in strictly
\* increasing chronological order (so each once); 16.12.2025 to 27.12.2025
\* with no holidays gives 11 dates without 21.12.2025.
C17_AvailableDates ==
    pc = "dates_done" =>
        /\ \A i, j \in 1..Len(available_dates) :
               i < j => Before(available_dates[i], available_dates[j])
        /\ AvailableSet =
               {d \in December2025 :
                    /\ ~Before(d, start_date)
                    /\ ~Before(end_date, d)
                    /\ d \notin Sundays2025
                    /\ d \notin holidays}
        /\ (/\ start_date = DateString(16, 12, 2025)
            /\ end_date = DateString(27, 12, 2025)
            /\ holidays = {})
               => /\ Len(available_dates) = 11
                  /\ DateString(21, 12, 2025) \notin AvailableSet

\* a range that ends on a working day and holds a Sunday and a holiday
C17_Witness ==
    /\ pc = "dates_done"
    /\ start_date = DateString(16, 12, 2025)
    /\ end_date = DateString(27, 12, 2025)
    /\ holidays = {DateString(24, 12, 2025)}
    /\ Len(available_dates) = 10
    /\ available_dates[10] = end_date

\* the pool whose subjects are tagged with a parity in the schedule
PoolOf(tag) == IF tag = "ODD" THEN odd_subjects ELSE even_subjects

\* the largest number of subjects one department has in a pool
PoolDepth(tag) ==
    SetMax({Cardinality({i \in 1..Len(PoolOf(tag)) : PoolOf(tag)[i].department = d}) :
                d \in Departments})

\* the round of the i-th subject of a pool: how many subjects of its
\* department precede it in the pool
RoundInPool(tag, i) ==
    Cardinality({j \in 1..(i - 1) :
                     PoolOf(tag)[j].department = PoolOf(tag)[i].department})

EntryRound(e) ==
    RoundInPool(e.semester_type,
                CHOOSE i \in 1..Len(PoolOf(e.semester_type)) :
                    PoolOf(e.semester_type)[i].subject_id = e.subject_id)

\* 0 for the requested (primary) parity, 1 for the other
ParityRank(tag) == IF tag = semester_type THEN 0 ELSE 1

\* (round, parity) of e comes before (round, parity) of f
PassBefore(e, f) ==
    \/ EntryRound(e) < EntryRound(f)
    \/ EntryRound(e) = EntryRound(f)
           /\ ParityRank(e.semester_type) < ParityRank(f.semester_type)

SamePass(e, f) ==
    EntryRound(e) = EntryRound(f) /\ e.semester_type = f.semester_type

Entries == {schedule[i] : i \in 1..Len(schedule)}

Passes == {<<e.semester_type, EntryRound(e)>> : e \in Entries}

SemReturned == pc = "done" /\ result = "returned"

\* C18: in a schedule of the alternating policy the exams of one parity and
\* round share a date; exams of an earlier round, or of the primary (requested)
\* parity in the same round, are on a strictly earlier date, so no date hosts
\* both parities; and the dates used are the first ones of the available
\* list, one per (parity, round) that has a subject, none skipped.
C18_AlternatingDates ==
    SemReturned =>
        /\ \A e, f \in Entries :
               /\ SamePass(e, f) => e.date = f.date
               /\ PassBefore(e, f) => e.date < f.date
               /\ e.date = f.date => e.semester_type = f.semester_type
        /\ {e.date : e \in Entries} =
               {available_dates[i] : i \in 1..Cardinality(Passes)}

\* four dates: primary round 0, secondary round 0, then primary rounds 1 and
\* 2 on consecutive dates because the secondary parity has nothing left
C18_Witness ==
    /\ SemReturned
    /\ Len(available_dates) >= 4
    /\ PoolDepth(semester_type) = 3
    /\ PoolDepth(OppositeSemester(semester_type)) = 1
    /\ \E e, f, g, h \in Entries :
          /\ e.semester_type = semester_type /\ EntryRound(e) = 0
          /\ f.semester_type # semester_type /\ EntryRound(f) = 0
          /\ g.semester_type = semester_type /\ EntryRound(g) = 1
          /\ h.semester_type = semester_type /\ EntryRound(h) = 2
          /\ e.date = available_dates[1] /\ f.date = available_dates[2]
          /\ g.date = available_dates[3] /\ h.date = available_dates[4]

\* the number of dates consumed before the pass of a parity and round
PassIndex(tag, r) ==
    IF tag = semester_type
    THEN r + Min2(r, PoolDepth(OppositeSemester(semester_type)))
    ELSE Min2(r + 1, PoolDepth(semester_type)) + r

\* the subjects, by parity tag, whose pass comes while dates remain
WithinDates ==
    UNION {{<<tag, PoolOf(tag)[i].subject_id>> :
               i \in {j \in 1..Len(PoolOf(tag)) :
                          PassIndex(tag, RoundInPool(tag, j)) < Len(available_dates)}} :
           tag \in Parities}

\* C19: given at least one available date, the alternating policy returns,
\* with no violation; the schedule holds exactly the subjects whose pass
\* comes before the dates run out, the others are absent.
C19_ShortfallDropsRounds ==
    (pc = "done" /\ available_dates # <<>>) =>
        /\ result = "returned"
        /\ error = NoError
        /\ violations = <<>>
        /\ {<<e.semester_type, e.subject_id>> : e \in Entries} = WithinDates
        /\ Len(schedule) = Cardinality(WithinDates)

\* fewer dates than passes: some subjects are scheduled, others dropped
C19_Witness ==
    /\ SemReturned
    /\ violations = <<>>
    /\ Len(available_dates) < PoolDepth("ODD") + PoolDepth("EVEN")
    /\ Len(schedule) > 0
    /\ Len(schedule) < Len(odd_subjects) + Len(even_subjects)
    /\ \E tag \in Parities : \E i \in 1..Len(PoolOf(tag)) :
          /\ RoundInPool(tag, i) >= 1
          /\ <<tag, PoolOf(tag)[i].subject_id>> \notin
                 {<<e.semester_type, e.subject_id>> : e \in Entries}

IntReturned == pc = "done" /\ result = "returned" /\ subjects # <<>>

\* both sessions are in use: fewer dates than the deepest department
DualSessions == Len(available_dates) < PoolMaxPerDept

\* the k-th slot of the list ordered by date, then session (FN before AN)
KthSlot(k) ==
    IF DualSessions
    THEN [date |-> available_dates[(k + 1) \div 2],
          session |-> IF k % 2 = 1 THEN "FN" ELSE "AN"]
    ELSE [date |-> available_dates[k], session |-> "FN"]

\* the rank of the i-th subject of the pool among those of its department
RankInDept(i) ==
    Cardinality({j \in 1..i : subjects[j].department = subjects[i].department})

\* C20: the fixed-slot-filling policy gives each subject, in pool order, the
\* first slot its own department has not used: the k-th subject of a
\* department gets the k-th slot of the list ordered by date then session,
\* whatever other departments hold, and no two exams of one department share
\* a (date, session) slot.
C20_KthSubjectKthSlot ==
    IntReturned =>
        /\ Len(schedule) = Len(subjects)
        /\ \A i \in 1..Len(schedule) :
               /\ schedule[i].subject_id = subjects[i].subject_id
               /\ schedule[i].department = subjects[i].department
               /\ schedule[i].date = KthSlot(RankInDept(i)).date
               /\ schedule[i].session = KthSlot(RankInDept(i)).session
        /\ \A i, j \in 1..Len(schedule) :
               (i # j /\ schedule[i].department = schedule[j].department) =>
                   ~(/\ schedule[i].date = schedule[j].date
                     /\ schedule[i].session = schedule[j].session)
        /\ \A i, j \in 1..Len(available_dates) :
               i < j => available_dates[i] < available_dates[j]

\* a department's second subject takes the second slot while another
\* department's first subject shares the first slot
C20_Witness ==
    /\ IntReturned
    /\ \E i, j, k \in 1..Len(schedule) :
          /\ i < j
          /\ schedule[i].department = schedule[j].department
          /\ schedule[i].date < schedule[j].date
          /\ schedule[k].department # schedule[i].department
          /\ schedule[k].date = schedule[i].date
          /\ schedule[k].session = schedule[i].session

\* ======================================================= claims C21 .. C30

SessionsUsed == {schedule[i].session : i \in 1..Len(schedule)}

\* C21: a returned fixed-slot schedule uses both FN and AN exactly when there
\* are fewer available dates than the largest per-department subject count;
\* otherwise every scheduled exam has session FN.
C21_DualSessionsIff ==
    IntReturned =>
        /\ (Len(available_dates) < PoolMaxPerDept) <=> (SessionsUsed = {"FN", "AN"})
        /\ ~(Len(available_dates) < PoolMaxPerDept) => SessionsUsed = {"FN"}

\* three subjects of one department on two dates: FN and AN of the first date
C21_Witness ==
    /\ IntReturned
    /\ Len(available_dates) = 2
    /\ PoolMaxPerDept = 3
    /\ \E i, j \in 1..Len(schedule) :
          /\ schedule[i].date = schedule[j].date
          /\ schedule[i].session = "FN"
          /\ schedule[j].session = "AN"

Offered(id) == db_subjects[id].exam_type \in {requested_exam_type, "BOTH"}

TrackIds(track) ==
    {subjects[i].subject_id : i \in {j \in 1..Len(subjects) :
                                         subjects[j].subject_track = track}}

RequestedParityIds ==
    {id \in 1..Len(db_subjects) :
        db_subjects[id].semester_type = semester_type /\ Offered(id)}

\* opposite-parity subjects with at least one active student carrying an arrear
ActiveArrearIds ==
    {id \in 1..Len(db_subjects) :
        /\ db_subjects[id].semester_type = OppositeSemester(semester_type)
        /\ Offered(id)
        /\ db_student_subjects[id].arrear_active >= 1}

\* C22: for INTERNAL the resolver returns the regular subjects of the
\* requested parity and no arrear row; for SEMESTER it returns them plus one
\* arrear row for each opposite-parity subject with at least one active,
\* enrolled student carrying an arrear, whose student count is the number of
\* distinct students with that arrear.
C22_PoolContents ==
    pc = "pool_done" =>
        /\ TrackIds("REGULAR") = RequestedParityIds
        /\ Len(subjects) = Cardinality(TrackIds("REGULAR")) + Cardinality(TrackIds("ARREAR"))
        /\ requested_exam_type = "INTERNAL" => TrackIds("ARREAR") = {}
        /\ requested_exam_type = "SEMESTER" =>
               /\ TrackIds("ARREAR") = ActiveArrearIds
               /\ \A i \in 1..Len(subjects) :
                      subjects[i].subject_track = "ARREAR" =>
                          subjects[i].student_count =
                              db_student_subjects[subjects[i].subject_id].arrear_active
                              + db_student_subjects[subjects[i].subject_id].arrear_inactive

\* the halls holding at least one student
UsedHalls == {allocations[i].hall_no : i \in 1..Len(allocations)}

\* position of a used hall among the used halls in ascending order
HallRank(h) == Cardinality({g \in UsedHalls : g <= h})

AssignedNames == {teacher_assignments[h] : h \in DOMAIN teacher_assignments}

StoredFor(table, d, sess) ==
    SelectSeq(table, LAMBDA r : r.exam_date = d /\ r.session = sess)

\* the rows of a frame that name a known hall and a known student
Savable(frame) ==
    SelectSeq(frame, LAMBDA a : a.hall_no \in HallsTable /\ a.student \in StudentsTable)

\* C24: a save that reaches the commit leaves, for its (date, session),
\* exactly the records of this save, whatever was stored before, and leaves
\* the records of every other (date, session) as they were.
C24_ReplaceNotMerge ==
    [][(allocations' # <<>> /\ self_exam_date' # NoDate) =>
          /\ LET now == StoredFor(seating_allocations', self_exam_date', self_session')
                 new == Savable(allocations')
             IN  /\ Len(now) = Len(new)
                 /\ records_saved' = Len(new)
                 /\ \A i \in 1..Len(now) :
                        /\ now[i].hall_name = new[i].hall_no
                        /\ now[i].reg_no = new[i].student
                        /\ now[i].seat_no = new[i].seat_no
          /\ \A d \in SaveDates, sess \in SaveSessions :
                 ~(d = self_exam_date' /\ sess = self_session') =>
                     StoredFor(seating_allocations', d, sess)
                         = StoredFor(seating_allocations, d, sess)]_vars

\* records are stored for every (date, session); the last save wrote one of
\* its two rows, after the records of the other three
C24_Witness ==
    /\ pc = "save_call"
    /\ \A d \in SaveDates, sess \in SaveSessions :
           StoredFor(seating_allocations, d, sess) # <<>>
    /\ Len(allocations) = 2
    /\ records_saved = 1
    /\ seating_allocations[Len(seating_allocations)].exam_date = self_exam_date
    /\ seating_allocations[Len(seating_allocations)].session = self_session
    /\ seating_allocations[Len(seating_allocations)].seat_no = 2

\* the seat assignments on bench b of hall h
BenchRows(h, b) ==
    {i \in 1..Len(allocations) :
        allocations[i].hall_no = h /\ allocations[i].seat_no = b}

\* C25: in TWO_PER_BENCH mode no bench holds more than two students, and
\* two students on one bench belong to different departments.
C25_BenchMatesDiffer ==
    exam_type = "Internal" =>
        \A h \in 1..Len(halls_df), b \in 1..(MaxCapacity + 1) :
            /\ Cardinality(BenchRows(h, b)) <= 2
            /\ \A i, j \in BenchRows(h, b) :
                   i # j => allocations[i].department # allocations[j].department

\* a finished TWO_PER_BENCH run with a full bench, while a department that
\* still had two students left supplied only one of them to that bench
C25_Witness ==
    /\ pc = "seat_done"
    /\ exam_type = "Internal"
    /\ \E h \in 1..Len(halls_df), b \in 1..MaxCapacity :
          /\ Cardinality(BenchRows(h, b)) = 2
          /\ \E i \in BenchRows(h, b) :
                /\ allocations[i].student = 0
                /\ dept_groups[allocations[i].department] = 2

\* C28: in a schedule returned by schedule_semester_exams no subject
\* identifier appears in two entries, subjects with arrears included.
C28_SubjectScheduledOnce ==
    SemReturned =>
        \A i, j \in 1..Len(schedule) :
            schedule[i].subject_id = schedule[j].subject_id => i = j

\* every row of both pools has its entry in the schedule
AllPoolEntriesScheduled ==
    /\ \A tag \in Parities : \A i \in 1..Len(PoolOf(tag)) :
           \E k \in 1..Len(schedule) :
               /\ schedule[k].semester_type = tag
               /\ schedule[k].subject_id = PoolOf(tag)[i].subject_id
    /\ Len(schedule) = Len(odd_subjects) + Len(even_subjects)

\* C29: schedule_semester_exams schedules every entry of both parity pools
\* exactly when the available dates number at least the sum of the largest
\* per-department subject counts of the two parities; with fewer dates the
\* schedule is shorter than the pools.
C29_AllScheduledIffEnoughDates ==
    SemReturned =>
        /\ AllPoolEntriesScheduled
               <=> Len(available_dates) >= PoolDepth("ODD") + PoolDepth("EVEN")
        /\ Len(available_dates) < PoolDepth("ODD") + PoolDepth("EVEN")
               => Len(schedule) < Len(odd_subjects) + Len(even_subjects)

\* exactly as many dates as passes, three of them, with a department two
\* subjects deep in one pool: everything is scheduled
C29_Witness ==
    /\ SemReturned
    /\ PoolDepth("ODD") + PoolDepth("EVEN") = 3
    /\ PoolDepth("ODD") >= 1
    /\ PoolDepth("EVEN") >= 1
    /\ Len(available_dates) = 3
    /\ Cardinality(DeptsOf(odd_subjects) \cup DeptsOf(even_subjects)) = 2
    /\ AllPoolEntriesScheduled

\* the students of the roster: the k-th student (from 0) of department d
RosterStudents ==
    UNION {{<<d, k>> : k \in 0..(dept_groups[d] - 1)} : d \in SeatDepartments}

\* C30: at every point of an allocator run no student holds two seat
\* assignments, every assigned student is one of the roster, and the loop
\* has made no more placements than the roster has students.
C30_EachStudentSeatedOnce ==
    /\ \A i, j \in 1..Len(allocations) :
           (allocations[i].department = allocations[j].department
              /\ allocations[i].student = allocations[j].student) => i = j
    /\ \A i \in 1..Len(allocations) :
           <<allocations[i].department, allocations[i].student>> \in RosterStudents
    /\ total_allocated = Len(allocations)
    /\ total_allocated <= TotalStudents(dept_groups)

\* a finished run that seated a whole roster of two departments with two
\* students each
C30_Witness ==
    /\ pc = "seat_done"
    /\ Cardinality(RosterStudents) = 4
    /\ Cardinality({d \in SeatDepartments : dept_groups[d] = 2}) = 2
    /\ {<<allocations[i].department, allocations[i].student>> :
            i \in 1..Len(allocations)} = RosterStudents
    /\ total_allocated = 4

\* the three stored tables of the scheduling run
Store == <<exam_cycles, schedules, schedule_violations>>

\* C26: in a run of main the store is written only by the step that reads
\* the answer 'y' to the final save confirmation, and with violations only
\* after the answer 'y' to the override prompt; once the override or the
\* final confirmation has been declined, the run has ended and the store
\* stays as it was.
C26_SavedOnlyAfterConfirmation ==
    [][/\ Store' # Store =>
             /\ final_confirm = NotAsked
             /\ final_confirm' = "y"
             /\ confirm = "y"
             /\ violations # <<>> => override_choice = "y"
       /\ (override_choice' \in Answers \ {"y"} \/ final_confirm' \in Answers \ {"y"}) =>
             /\ Store' = Store
             /\ pc' = "main_exit"]_vars

\* a run that ended after the final confirmation: the schedule, modified by
\* the operator, is stored under a new cycle next to the earlier one
C26_Witness ==
    /\ pc = "main_exit"
    /\ confirm = "y"
    /\ modify_choice = "y"
    /\ final_confirm = "y"
    /\ Len(exam_cycles) = 2
    /\ Len(schedule) = 2
    /\ schedule[1].session = "AN"
    /\ Len(schedules) = 3
    /\ \A i \in 1..2 : schedules[i + 1] = ScheduleRow(2, schedule[i])

====
